---- MODULE Spec2Model ----
(***************************************************************************)
(* AgentPilot: the agent execution runtime.                                *)
(*                                                                         *)
(*   core/executor.py   execute_agent_by_id, execute_run                   *)
(*   core/runtime.py    run_agent                                          *)
(*   scheduler/loop.py  AgentScheduler (APScheduler AsyncIOScheduler)      *)
(*   api/routes.py      create_agent, create_run                           *)
(*   main.py            on_startup, on_shutdown                            *)
(*   db/models.py       Agent, Run                                         *)
(*                                                                         *)
(* The durable store holds committed rows only.  Every execution owns one  *)
(* session: what it flushes stays inside its open transaction and reaches  *)
(* the store at commit.  A coroutine yields at its awaits, so one action   *)
(* is the code between two awaits.                                         *)
(***************************************************************************)
EXTENDS Integers, Sequences, FiniteSets, TLC

(* ------------------------------ bounds -------------------------------- *)
MaxAgents == 2      \* rows of the agents table
MaxRuns   == 1      \* primary keys the runs table hands out
MaxExecs  == 2      \* calls of execute_agent_by_id / execute_run
MaxClock  == 1      \* times datetime.now() moves on

AgentIds  == 1..MaxAgents
RunIds    == 1..MaxRuns
Execs     == 1..MaxExecs

\* IntervalTrigger(seconds=n): one clock unit stands for 30 seconds
Intervals == {1, 2}

(* --------------------------- db/models.py ----------------------------- *)
None == 0           \* NULL of a nullable DateTime column; the clock starts at 1

\* Run.logs default "" (models.py:42)
LogsDefault == <<>>

Terminal == {"success", "error"}

\* class Run: the mapped columns of one row
Run(agent_id, status, started_at) ==
    [agent_id    |-> agent_id,
     status      |-> status,
     started_at  |-> started_at,
     finished_at |-> None,
     logs        |-> LogsDefault]

NoRun == Run(0, "", None)

\* class Agent: the mapped columns the runtime reads
Agent(kind, schedule_seconds, enabled) ==
    [kind |-> kind, schedule_seconds |-> schedule_seconds, enabled |-> enabled]

(* --------------------------- core/runtime.py -------------------------- *)
AGENT_KIND_TO_CLASS == {"invoice_email"}

\* the exception classes `except Exception` catches; asyncio.CancelledError
\* derives from BaseException only and is not one of them
ExceptionClasses == {"KeyError", "TypeError", "RuntimeError"}

Returned(val)      == [tag |-> "return", exc |-> "", val |-> val]
Raised(exc, msg)   == [tag |-> "raise", exc |-> exc, val |-> msg]
NoOutcome          == [tag |-> "none", exc |-> "", val |-> <<>>]

\* AGENT_KIND_TO_CLASS.get(kind) in place of the subscript: None is called
run_agent_get(kind) ==
    IF kind \notin AGENT_KIND_TO_CLASS
    THEN {Raised("TypeError", <<"'NoneType' object is not callable">>)}
    ELSE {Returned(<<"counts">>),
          Returned(<<"not-json">>),
          Raised("RuntimeError", <<"boom">>),
          Raised("CancelledError", <<>>)}

\* run_agent(kind, config): AGENT_KIND_TO_CLASS[kind] raises KeyError for a
\* kind that is no key; otherwise the behaviour's run() returns a document
\* or raises whatever a connector, an action or the behaviour raises
run_agent(kind) ==
    IF kind \notin AGENT_KIND_TO_CLASS
    THEN {Raised("KeyError", <<kind>>)}
    ELSE {Returned(<<"counts">>),
          Returned(<<"not-json">>),
          Raised("RuntimeError", <<"boom">>),
          Raised("CancelledError", <<>>)}

\* json.dumps(result): text for a JSON document, TypeError otherwise
json_dumps(val) ==
    IF val = <<"not-json">>
    THEN Raised("TypeError", <<"not JSON serializable">>)
    ELSE Returned(<<"json">> \o val)

\* f"{type(exc).__name__}: {exc}"
format_exc(o) == <<o.exc, ": ">> \o o.val

\* the lookup miss raised instead of returned
not_found_raise(what, id) == Raised("LookupError", <<what, id, "not found">>)

\* f"Agent {agent_id} not found", f"Run {run_id} not found"
not_found(what, id) == Returned(<<"error", what, id, "not found">>)

(* --------------------------- core/registry.py ------------------------- *)
\* the names plugins are registered and looked up under
Names == {"mock_email", "email", "log"}

\* the factories of bootstrap.py: lambda: MockEmailConnector(), ...
ConnectorFactories == {"MockEmailConnector"}
ActionFactories    == {"EmailAction", "LogAction"}

\* Registry.__init__: both dicts empty
NewRegistry == [connectors |-> <<>>, actions |-> <<>>]

\* RegisteredConnector(name, factory), RegisteredAction(name, factory)
Registered(name, factory) == [name |-> name, factory |-> factory]

\* self._connectors[name] = RegisteredConnector(name=name, factory=factory)
register_connector(reg, name, factory) ==
    [reg EXCEPT !.connectors = (name :> Registered(name, factory)) @@ @]

\* self._actions[name] = RegisteredAction(name=name, factory=factory)
register_action(reg, name, factory) ==
    [reg EXCEPT !.actions = (name :> Registered(name, factory)) @@ @]

\* factory(): a new component of the factory's class
Component(entry) == Returned(<<entry.factory>>)

\* one dict for both namespaces
connector_any(reg, name) ==
    IF name \in DOMAIN reg.connectors THEN Component(reg.connectors[name])
    ELSE IF name \in DOMAIN reg.actions THEN Component(reg.actions[name])
    ELSE Raised("KeyError", <<name>>)

\* return self._connectors[name].factory(): the subscript raises
\* KeyError(name) for a name that is no key
connector(reg, name) ==
    IF name \in DOMAIN reg.connectors
    THEN Component(reg.connectors[name])
    ELSE Raised("KeyError", <<name>>)

\* return self._actions[name].factory()
action(reg, name) ==
    IF name \in DOMAIN reg.actions
    THEN Component(reg.actions[name])
    ELSE Raised("KeyError", <<name>>)

\* core/bootstrap.py lines 7-10
register_plugins(reg) ==
    register_action(
        register_action(
            register_connector(reg, "mock_email", "MockEmailConnector"),
            "email", "EmailAction"),
        "log", "LogAction")

(* -------------------- agents/invoice_email_agent.py ------------------- *)
MaxMsgs == 3        \* messages one fetch() returns

\* strings are sequences of characters
INVOICE_LOWER == <<"i", "n", "v", "o", "i", "c", "e">>
FWD           == <<"F", "W", "D", ":", " ">>

\* str.lower(), character by character
lower_char(c) ==
    CASE c = "I" -> "i" [] c = "N" -> "n" [] c = "V" -> "v"
      [] c = "O" -> "o" [] c = "C" -> "c" [] c = "E" -> "e"
      [] c = "R" -> "r" [] OTHER -> c

lower(str) == [i \in DOMAIN str |-> lower_char(str[i])]

\* `needle in hay` for strings
contains(needle, hay) ==
    \E i \in 0..(Len(hay) - Len(needle)) :
        SubSeq(hay, i + 1, i + Len(needle)) = needle

\* a message is a dict; keys are the keys it has
Message(keys, subject, body) == [keys |-> keys, subject |-> subject, body |-> body]

\* m.get(key, "")
get(m, key) == IF key \in m.keys THEN m[key] ELSE <<>>

Msg_Invoice4  == Message({"subject", "body"},
                         <<"I", "n", "v", "o", "i", "c", "e", " ", "#", "4">>, <<"b">>)
Msg_Upper     == Message({"subject"}, <<"R", "E", ":", "I", "N", "V", "O", "I", "C", "E">>, <<>>)
Msg_InVoice   == Message({"subject", "body"},
                         <<"i", "n", " ", "v", "o", "i", "c", "e">>, <<"b">>)
Msg_NoSubject == Message({"body"}, <<>>, <<"i", "n", "v", "o", "i", "c", "e">>)

Messages == {Msg_Invoice4, Msg_Upper, Msg_InVoice, Msg_NoSubject}

RECURSIVE SeqsUpTo(_, _)
SeqsUpTo(S, n) ==
    IF n = 0 THEN {<<>>}
    ELSE LET shorter == SeqsUpTo(S, n - 1)
         IN  shorter \cup {Append(q, x) : q \in {r \in shorter : Len(r) = n - 1}, x \in S}

\* what connector.fetch() may return
Inboxes == SeqsUpTo(Messages, MaxMsgs)

\* self.config: the keys run() reads
Configs ==
    {[connector |-> "mock_email", action |-> a, accounting_email |-> "acct"] :
        a \in {"email", "log"}}

\* the test without .lower()
is_invoice_cased(m) == contains(INVOICE_LOWER, get(m, "subject"))

\* line 18: "invoice" in m.get("subject", "").lower()
is_invoice(m) == contains(INVOICE_LOWER, lower(get(m, "subject")))

\* lines 26-30: the keyword arguments of one action.run call
kwargs_of(config, m) ==
    [to      |-> config.accounting_email,
     subject |-> FWD \o get(m, "subject"),
     body    |-> get(m, "body")]

\* line 33
counts(x) ==
    Returned([inputs |-> Len(x.messages), invoices |-> Len(x.invoices),
              sent |-> Len(x.results)])

NewInvoiceRun ==
    [pc |-> "new", messages |-> <<>>, invoices |-> <<>>, results |-> <<>>,
     calls |-> <<>>, config |-> [connector |-> "", action |-> "", accounting_email |-> ""],
     out |-> NoOutcome]

\* lines 25-31, loop head: the next invoice's action.run is invoked, and
\* line 33 once the invoices are used up
next_invoice(x) ==
    IF Len(x.results) < Len(x.invoices)
    THEN [x EXCEPT !.pc = "action",
                   !.calls = Append(@, kwargs_of(x.config, x.invoices[Len(x.results) + 1]))]
    ELSE [x EXCEPT !.pc = "returned", !.out = counts(x)]

\* lines 12-25: the lookups, the fetch and the filter
run_begin(reg, config, inbox) ==
    LET c == connector(reg, config.connector)
        a == action(reg, config.action)
        x == [NewInvoiceRun EXCEPT !.config = config]
    IN  IF c.tag = "raise" THEN [x EXCEPT !.pc = "raised", !.out = c]
        ELSE LET y == [x EXCEPT !.messages = inbox,
                                !.invoices = SelectSeq(inbox, is_invoice)]
             IN  IF a.tag = "raise" THEN [y EXCEPT !.pc = "raised", !.out = a]
                 ELSE next_invoice(y)

\* line 32: results.append(res)
after_return(x, res) == next_invoice([x EXCEPT !.results = Append(@, res)])

\* the failed call skipped inside a per-item try/except
after_raise_caught(x, exc) == after_return(x, "failed")

\* line 26: the awaited action.run raises; nothing in run() catches it
after_raise(x, exc) == [x EXCEPT !.pc = "raised", !.out = exc]

VARIABLES
    agents,     \* agents table: row i has primary key i
    runs,       \* runs table, committed rows: primary key -> row
    next_run_id,\* next primary key of the runs table
    execs,      \* the coroutines of the executor, one per call in progress
    jobs,       \* the scheduler's job store
    running,    \* AsyncIOScheduler.state is STATE_RUNNING
    app,        \* main.py lifecycle: "init", "up", "down"
    requested,  \* per agent id, the seconds of its latest add_or_update_job call
    removed,    \* per agent id, a removal was asked for since that call
    alive,      \* the process has not crashed
    now,        \* datetime.now(timezone.utc)
    registry,   \* core/registry.py: the module's Registry object
    looked,     \* what the latest registry lookup gave its caller
    inv         \* a coroutine of InvoiceEmailAgent.run

\* the plugin layer's part of the state
plugvars == <<looked, inv>>

vars == <<agents, runs, next_run_id, execs, jobs, requested, removed, running, app,
          alive, now, registry, plugvars>>

(* --------------------------- core/executor.py ------------------------- *)
\* a coroutine of execute_agent_by_id (insert) or execute_run (not insert),
\* called with arg; run is the session's Run object, dirty the attributes
\* the session assigned, ret what the caller gets
Idle == [pc |-> "idle", insert |-> FALSE, arg |-> 0, run_id |-> 0,
         run |-> NoRun, dirty |-> {}, ret |-> NoOutcome]

\* the session closes, the caller gets the result or the exception
Done(x) == [x EXCEPT !.pc = "done", !.run = NoRun, !.dirty = {}]

\* lines 19-24: run = Run(agent_id=..., status="running", started_at=now)
new_run(agent_id, t) == Run(agent_id, "running", t)

\* lines 49-50: run.status = "running"; run.started_at = now
mark_running(run, t) == [run EXCEPT !.status = "running", !.started_at = t]

\* lines 28-30 / 54-56: run.status = "success"; run.logs = json.dumps(result)
\* (the status is assigned before json.dumps can raise)
success_block(x, result) ==
    LET text == json_dumps(result) IN
    [x EXCEPT !.run.status = "success",
              !.run.logs   = IF text.tag = "return" THEN text.val ELSE @,
              !.dirty      = @ \cup {"status"} \cup
                             (IF text.tag = "return" THEN {"logs"} ELSE {}),
              !.ret        = IF text.tag = "return" THEN Returned(result) ELSE text]

\* lines 31-34 / 57-60: except Exception as exc: status, logs; raise
except_block(x) ==
    IF x.ret.tag = "raise" /\ x.ret.exc \in ExceptionClasses
    THEN [x EXCEPT !.run.status = "error",
                   !.run.logs   = format_exc(x.ret),
                   !.dirty      = @ \cup {"status", "logs"}]
    ELSE x

\* the stamp under `else:` instead of `finally:`
finally_block_else(x, t) ==
    IF x.ret.tag = "return"
    THEN [x EXCEPT !.run.finished_at = t, !.dirty = @ \cup {"finished_at"}]
    ELSE x

\* lines 35-36 / 61-62: finally: run.finished_at = now
finally_block(x, t) ==
    [x EXCEPT !.run.finished_at = t, !.dirty = @ \cup {"finished_at"}]

\* lines 26-36 / 52-62, from the moment run_agent comes back with outcome o
try_statement(x, o, t) ==
    LET body == IF o.tag = "return" THEN success_block(x, o.val)
                                    ELSE [x EXCEPT !.ret = o]
    IN  finally_block(except_block(body), t)

\* finished_at written only where the row has none yet
merge_keep_finished(row, run, dirty) ==
    [agent_id    |-> row.agent_id,
     status      |-> IF "status" \in dirty THEN run.status ELSE row.status,
     started_at  |-> IF "started_at" \in dirty THEN run.started_at ELSE row.started_at,
     finished_at |-> IF "finished_at" \in dirty /\ row.finished_at = None
                     THEN run.finished_at ELSE row.finished_at,
     logs        |-> IF "logs" \in dirty THEN run.logs ELSE row.logs]

\* the UPDATEs of a session carry the attributes it assigned
merge(row, run, dirty) ==
    [agent_id    |-> row.agent_id,
     status      |-> IF "status" \in dirty THEN run.status ELSE row.status,
     started_at  |-> IF "started_at" \in dirty THEN run.started_at ELSE row.started_at,
     finished_at |-> IF "finished_at" \in dirty THEN run.finished_at ELSE row.finished_at,
     logs        |-> IF "logs" \in dirty THEN run.logs ELSE row.logs]

\* lines 37 / 63: await session.commit(): the transaction becomes durable
commit(rows, x) ==
    IF x.insert
    THEN (x.run_id :> x.run) @@ rows
    ELSE [rows EXCEPT ![x.run_id] = merge(@, x.run, x.dirty)]

\* calls take the free coroutine slots in order
FreeSlot(e) ==
    /\ execs[e].pc = "idle"
    /\ \A d \in Execs : d < e => execs[d].pc # "idle"

\* lines 13-25, up to the end of `await session.flush()`: the INSERT is sent
\* inside the session's open transaction and learns its primary key
execute_agent_by_id(e, agent_id) ==
    /\ alive /\ app = "up" /\ FreeSlot(e)
    /\ IF agent_id \notin DOMAIN agents
       THEN /\ execs' = [execs EXCEPT ![e] =
                   Done([Idle EXCEPT !.insert = TRUE, !.arg = agent_id,
                                     !.ret = not_found("Agent ", agent_id)])]
            /\ UNCHANGED next_run_id
       ELSE /\ next_run_id <= MaxRuns
            /\ execs' = [execs EXCEPT ![e] =
                   [Idle EXCEPT !.pc = "run_agent", !.insert = TRUE,
                                !.arg = agent_id, !.run_id = next_run_id,
                                !.run = new_run(agent_id, now)]]
            /\ next_run_id' = next_run_id + 1
    /\ UNCHANGED <<agents, runs, jobs, requested, removed, running, app, alive, now, registry, plugvars>>

\* lines 40-51, up to the end of `await session.flush()`: the UPDATE is sent
\* inside the session's open transaction
execute_run(e, run_id) ==
    /\ alive /\ app = "up" /\ FreeSlot(e)
    /\ IF run_id \notin DOMAIN runs
       THEN execs' = [execs EXCEPT ![e] =
                 Done([Idle EXCEPT !.arg = run_id, !.ret = not_found("Run ", run_id)])]
       ELSE IF runs[run_id].agent_id \notin DOMAIN agents
       THEN execs' = [execs EXCEPT ![e] =
                 Done([Idle EXCEPT !.arg = run_id,
                                   !.ret = not_found("Agent ", runs[run_id].agent_id)])]
       ELSE execs' = [execs EXCEPT ![e] =
                 [Idle EXCEPT !.pc = "run_agent", !.arg = run_id, !.run_id = run_id,
                              !.run = mark_running(runs[run_id], now),
                              !.dirty = {"status", "started_at"}]]
    /\ UNCHANGED <<agents, runs, next_run_id, jobs, requested, removed, running, app, alive, now, registry, plugvars>>

\* lines 26-36 / 52-62: `await run_agent(...)` comes back, the try statement
\* runs up to `await session.commit()`
await_run_agent(e) ==
    /\ alive /\ execs[e].pc = "run_agent"
    /\ \E o \in run_agent(agents[execs[e].run.agent_id].kind) :
          execs' = [execs EXCEPT ![e] = [try_statement(@, o, now) EXCEPT !.pc = "commit"]]
    /\ UNCHANGED <<agents, runs, next_run_id, jobs, requested, removed, running, app, alive, now, registry, plugvars>>

\* lines 37 / 63, then the return or the re-raise reaches the caller
await_commit(e) ==
    /\ alive /\ execs[e].pc = "commit"
    /\ runs' = commit(runs, execs[e])
    /\ execs' = [execs EXCEPT ![e] = Done(@)]
    /\ UNCHANGED <<agents, next_run_id, jobs, requested, removed, running, app, alive, now, registry, plugvars>>

\* the caller has taken the result; the coroutine is gone
receive(e) ==
    /\ alive /\ execs[e].pc = "done"
    /\ execs' = [execs EXCEPT ![e] = Idle]
    /\ UNCHANGED <<agents, runs, next_run_id, jobs, requested, removed, running, app, alive, now, registry, plugvars>>

(* ---------------------------- api/routes.py --------------------------- *)
\* AgentCreate payloads (name and config left out: nothing here reads them)
AgentPayloads ==
    {Agent("invoice_email", 1, TRUE),
     Agent("invoice_email", 2, FALSE),
     Agent("report", 2, TRUE)}

\* POST /agents, lines 32-44
create_agent(payload) ==
    /\ alive /\ app = "up" /\ Len(agents) < MaxAgents
    /\ agents' = Append(agents, payload)
    /\ UNCHANGED <<runs, next_run_id, execs, jobs, requested, removed, running, app, alive, now, registry, plugvars>>

\* POST /runs, lines 61-67 (SQLite, the configured default, does not enforce
\* the foreign key, so agent_id may name no agent)
create_run(agent_id) ==
    /\ alive /\ app = "up" /\ next_run_id <= MaxRuns
    /\ runs' = (next_run_id :> Run(agent_id, "queued", None)) @@ runs
    /\ next_run_id' = next_run_id + 1
    /\ UNCHANGED <<agents, execs, jobs, requested, removed, running, app, alive, now, registry, plugvars>>

(* -------------------------- scheduler/loop.py ------------------------- *)
\* job_id = f"agent-{agent_id}"
job_id_of(agent_id) == <<"agent-", agent_id>>

\* scheduler.get_job(job_id)
get_job(js, job_id) == \E i \in DOMAIN js : js[i].id = job_id

\* scheduler.remove_job(job_id)
remove_job(js, job_id) == SelectSeq(js, LAMBDA j : j.id # job_id)

\* scheduler.add_job(func, trigger=IntervalTrigger(seconds=...), id=...,
\* replace_existing=True): the first run is one interval from now
add_job(js, agent_id, seconds, t) ==
    LET job == [id |-> job_id_of(agent_id), agent_id |-> agent_id,
                seconds |-> seconds, next_run_time |-> t + seconds]
    IN  IF get_job(js, job.id)
        THEN [i \in DOMAIN js |-> IF js[i].id = job.id THEN job ELSE js[i]]
        ELSE Append(js, job)

\* an id that has a job keeps it, interval and all
add_or_update_job_keep(js, agent_id, seconds, t) ==
    IF get_job(js, job_id_of(agent_id)) THEN js ELSE add_job(js, agent_id, seconds, t)

\* every job removed before the new one is added
add_or_update_job_clear(js, agent_id, seconds, t) == add_job(<<>>, agent_id, seconds, t)

\* lines 22-31
add_or_update_job(js, agent_id, seconds, t) ==
    LET job_id == job_id_of(agent_id)
        kept   == IF get_job(js, job_id) THEN remove_job(js, job_id) ELSE js
    IN  add_job(kept, agent_id, seconds, t)

\* the select without its where clause: one call per agent
RECURSIVE load_from_all(_, _, _, _)
load_from_all(js, rows, i, t) ==
    IF i > Len(rows) THEN js
    ELSE load_from_all(add_or_update_job(js, i, rows[i].schedule_seconds, t),
                       rows, i + 1, t)

\* lines 15-20: one call per enabled agent, in primary-key order
RECURSIVE load_from(_, _, _, _)
load_from(js, rows, i, t) ==
    IF i > Len(rows) THEN js
    ELSE load_from(IF rows[i].enabled
                   THEN add_or_update_job(js, i, rows[i].schedule_seconds, t)
                   ELSE js,
                   rows, i + 1, t)

load_jobs(js, rows, t) == load_from(js, rows, 1, t)

\* main.py lines 14-19: load_jobs(), then scheduler.start()
on_startup ==
    /\ alive /\ app = "init"
    /\ registry' = register_plugins(registry)
    /\ jobs' = load_jobs(jobs, agents, now)
    /\ requested' = [a \in AgentIds |->
                        IF a \in DOMAIN agents /\ agents[a].enabled
                        THEN agents[a].schedule_seconds ELSE requested[a]]
    /\ removed' = [a \in AgentIds |->
                        IF a \in DOMAIN agents /\ agents[a].enabled
                        THEN FALSE ELSE removed[a]]
    /\ running' = TRUE
    /\ app' = "up"
    /\ UNCHANGED <<agents, runs, next_run_id, execs, alive, now, plugvars>>

\* main.py lines 21-23: scheduler.shutdown(wait=False) stops the scheduler
\* and shuts its memory job store, which drops the jobs; it returns at once
on_shutdown ==
    /\ alive /\ app = "up" /\ running
    /\ running' = FALSE
    /\ jobs' = <<>>
    /\ app' = "down"
    /\ UNCHANGED <<agents, runs, next_run_id, execs, requested, removed, alive, now, registry, plugvars>>

\* the management layer asks the scheduler to tear down an agent's timer.
\* class AgentScheduler (lines 11-37) has __init__, load_jobs,
\* add_or_update_job, start and shutdown and nothing that removes: the call
\* is an AttributeError and the job store is as before
RemoveJob(agent_id) ==
    /\ alive /\ app = "up"
    /\ removed' = [removed EXCEPT ![agent_id] = TRUE]
    /\ UNCHANGED <<agents, runs, next_run_id, execs, jobs, requested, running, app, alive, now, registry, plugvars>>

\* the management layer tells the scheduler about an enabled agent
AddOrUpdateJob(agent_id, seconds) ==
    /\ alive /\ app = "up"
    /\ agent_id \in DOMAIN agents /\ agents[agent_id].enabled
    /\ jobs' = add_or_update_job(jobs, agent_id, seconds, now)
    /\ requested' = [requested EXCEPT ![agent_id] = seconds]
    /\ removed' = [removed EXCEPT ![agent_id] = FALSE]
    /\ UNCHANGED <<agents, runs, next_run_id, execs, running, app, alive, now, registry, plugvars>>

\* a timer is due.  The job's callable is `lambda: execute_agent_by_id(id)`,
\* no coroutine function, so the scheduler's executor calls it in a worker
\* thread and gets back a coroutine object that nothing awaits: no line of
\* execute_agent_by_id runs
fire(i) ==
    /\ alive /\ running /\ i \in DOMAIN jobs
    /\ now >= jobs[i].next_run_time
    /\ jobs' = [jobs EXCEPT ![i].next_run_time = @ + jobs[i].seconds]
    /\ UNCHANGED <<agents, runs, next_run_id, execs, requested, removed, running, app, alive, now, registry, plugvars>>

(* ------------------------ callers of the registry -------------------- *)
NoLookup == [ns |-> "", name |-> "", out |-> NoOutcome]

\* registry.register_connector(name, factory)
RegisterConnector(name, factory) ==
    /\ alive
    /\ registry' = register_connector(registry, name, factory)
    /\ UNCHANGED <<agents, runs, next_run_id, execs, jobs, requested, removed, running,
                   app, alive, now, plugvars>>

\* registry.register_action(name, factory)
RegisterAction(name, factory) ==
    /\ alive
    /\ registry' = register_action(registry, name, factory)
    /\ UNCHANGED <<agents, runs, next_run_id, execs, jobs, requested, removed, running,
                   app, alive, now, plugvars>>

\* registry.connector(name)
LookupConnector(name) ==
    /\ alive
    /\ looked' = [ns |-> "connector", name |-> name, out |-> connector(registry, name)]
    /\ UNCHANGED <<agents, runs, next_run_id, execs, jobs, requested, removed, running,
                   app, alive, now, registry, inv>>

\* registry.action(name)
LookupAction(name) ==
    /\ alive
    /\ looked' = [ns |-> "action", name |-> name, out |-> action(registry, name)]
    /\ UNCHANGED <<agents, runs, next_run_id, execs, jobs, requested, removed, running,
                   app, alive, now, registry, inv>>

(* -------------------- a call of InvoiceEmailAgent.run ------------------ *)
\* run_agent builds InvoiceEmailAgent(config) and awaits run(); the
\* connector's fetch() returns inbox
InvoiceEmailAgent_run(config, inbox) ==
    /\ alive /\ inv.pc = "new"
    /\ inv' = run_begin(registry, config, inbox)
    /\ UNCHANGED <<agents, runs, next_run_id, execs, jobs, requested, removed, running,
                   app, alive, now, registry, looked>>

\* the awaited action.run returns its result document
action_returns ==
    /\ alive /\ inv.pc = "action"
    /\ inv' = after_return(inv, "sent")
    /\ UNCHANGED <<agents, runs, next_run_id, execs, jobs, requested, removed, running,
                   app, alive, now, registry, looked>>

\* the awaited action.run raises
action_raises ==
    /\ alive /\ inv.pc = "action"
    /\ inv' = after_raise(inv, Raised("RuntimeError", <<"smtp down">>))
    /\ UNCHANGED <<agents, runs, next_run_id, execs, jobs, requested, removed, running,
                   app, alive, now, registry, looked>>

(* ------------------------------ environment --------------------------- *)
\* datetime.now() moves on
Tick ==
    /\ alive /\ now <= MaxClock
    /\ now' = now + 1
    /\ UNCHANGED <<agents, runs, next_run_id, execs, jobs, requested, removed, running, app, alive, registry, plugvars>>

\* the process dies: open transactions are never committed
Crash ==
    /\ alive /\ app = "up"
    /\ alive' = FALSE
    /\ UNCHANGED <<agents, runs, next_run_id, execs, jobs, requested, removed, running, app, now, registry, plugvars>>

\* the agents table as earlier lifetimes of the process left it
StoredAgents == {<<>>} \cup {<<p>> : p \in AgentPayloads}

Init ==
    /\ agents \in StoredAgents
    /\ runs = <<>>
    /\ next_run_id = 1
    /\ execs = [e \in Execs |-> Idle]
    /\ jobs = <<>>
    /\ requested = [a \in AgentIds |-> 0]
    /\ removed = [a \in AgentIds |-> FALSE]
    /\ running = FALSE
    /\ app = "init"
    /\ alive = TRUE
    /\ now = 1
    /\ registry = NewRegistry
    /\ looked = NoLookup
    /\ inv = NewInvoiceRun

\* the agents table with up to MaxAgents rows
LoadInit ==
    /\ agents \in SeqsUpTo(AgentPayloads, MaxAgents)
    /\ runs = <<>>
    /\ next_run_id = 1
    /\ execs = [e \in Execs |-> Idle]
    /\ jobs = <<>>
    /\ requested = [a \in AgentIds |-> 0]
    /\ removed = [a \in AgentIds |-> FALSE]
    /\ running = FALSE
    /\ app = "init"
    /\ alive = TRUE
    /\ now = 1
    /\ registry = NewRegistry
    /\ looked = NoLookup
    /\ inv = NewInvoiceRun

\* the executor's steps
ExecNext ==
    \/ \E a \in AgentIds : create_run(a)
    \/ \E e \in Execs, a \in AgentIds : execute_agent_by_id(e, a)
    \/ \E e \in Execs, r \in RunIds : execute_run(e, r)
    \/ \E e \in Execs : await_run_agent(e)
    \/ \E e \in Execs : await_commit(e)
    \/ \E e \in Execs : receive(e)

\* the scheduler's steps
SchedNext ==
    \/ \E i \in AgentIds : fire(i)
    \/ \E p \in AgentPayloads : create_agent(p)
    \/ \E a \in AgentIds, n \in Intervals : AddOrUpdateJob(a, n)
    \/ \E a \in AgentIds : RemoveJob(a)

\* the process's lifecycle and its clock
LifeNext ==
    \/ on_startup
    \/ on_shutdown
    \/ Tick
    \/ Crash

\* the registry's steps
RegNext ==
    \/ \E n \in Names, f \in ConnectorFactories : RegisterConnector(n, f)
    \/ \E n \in Names, f \in ActionFactories : RegisterAction(n, f)
    \/ \E n \in Names : LookupConnector(n)
    \/ \E n \in Names : LookupAction(n)

\* the invoice behaviour's steps
AgentNext ==
    \/ \E c \in Configs, inbox \in Inboxes : InvoiceEmailAgent_run(c, inbox)
    \/ action_returns
    \/ action_raises

Next == SchedNext \/ ExecNext \/ LifeNext \/ RegNext \/ AgentNext

Spec == Init /\ [][Next]_vars

\* The executor and the scheduler share no state: no scheduler step reads or
\* writes execs, runs or next_run_id, no executor step reads or writes jobs.
ExecSpec  == Init /\ [][ExecNext \/ LifeNext]_vars
SchedSpec == Init /\ [][SchedNext \/ LifeNext]_vars

\* A lifetime of the process in which nothing but startup installs timers.
LoadNext == (\E i \in AgentIds : fire(i)) \/ LifeNext

LoadSpec == LoadInit /\ [][LoadNext]_vars

\* The registry is a module-level object of its own: registrations and
\* lookups read and write nothing else.
RegSpec == Init /\ [][RegNext]_vars

\* One run of the invoice behaviour, before or after the plugins are
\* registered at startup.
AgentSpec == Init /\ [][AgentNext \/ LifeNext]_vars

\* the event loop resumes every coroutine whose await has completed
ExecFairSpec ==
    /\ ExecSpec
    /\ \A e \in Execs : WF_vars(await_run_agent(e)) /\ WF_vars(await_commit(e))

(* ======================= properties of the executor =================== *)
InFlight(e) == execs[e].pc \in {"run_agent", "commit"}

\* the step in which execution e commits and hands its outcome to the caller
Commits(e) == execs[e].pc = "commit" /\ execs'[e].pc = "done"

\* C1: whenever run_agent raises after the record was put into "running",
\* the committed record has status "error" and logs "<type>: <message>", and
\* the caller gets the exception; no reported failure leaves it "running".
C1_FailureRecorded ==
    [][\A e \in Execs :
         (Commits(e) /\ execs[e].ret.tag = "raise") =>
            LET r == execs[e].run_id IN
            /\ r \in DOMAIN runs'
            /\ runs'[r].status = "error"
            /\ runs'[r].logs = <<execs[e].ret.exc, ": ">> \o execs[e].ret.val
            /\ execs'[e].ret = execs[e].ret]_vars

\* C2: the committed status of a record only moves forward along
\* {pending, queued} -> running -> {success, error}, and a record that is
\* "success" or "error" keeps that status.
Rank(status) ==
    IF status \in Terminal THEN 2 ELSE IF status = "running" THEN 1 ELSE 0

C2_StatusMonotonic ==
    [][\A r \in DOMAIN runs :
         /\ r \in DOMAIN runs'
         /\ Rank(runs'[r].status) >= Rank(runs[r].status)
         /\ runs[r].status \in Terminal => runs'[r].status = runs[r].status]_vars

\* C3: every execution that has set started_at (step 2) eventually has
\* finished_at set on its record in the store, on every exit path, unless
\* the process dies first.
C3_FinishedAtPersisted ==
    \A e \in Execs :
        InFlight(e) ~>
            \/ ~alive
            \/ /\ execs[e].pc = "done"
               /\ execs[e].run_id \in DOMAIN runs
               /\ runs[execs[e].run_id].finished_at # None

\* an execution has left through the serialisation failure and its record
\* carries finished_at
C3_Witness ==
    \E e \in Execs :
        /\ execs[e].pc = "done"
        /\ execs[e].ret.exc = "TypeError"
        /\ execs[e].run_id \in DOMAIN runs
        /\ runs[execs[e].run_id].finished_at # None

\* C4: every committed record whose status is "success" or "error" has
\* finished_at set, and finished_at >= started_at.
C4_FinishedAfterStarted ==
    \A r \in DOMAIN runs :
        runs[r].status \in Terminal =>
            /\ runs[r].finished_at # None
            /\ runs[r].finished_at >= runs[r].started_at

\* a record is terminal while another execution of the same run, begun
\* before that record's finish, is still in flight
C4_Witness ==
    \E e \in Execs :
        /\ InFlight(e)
        /\ execs[e].run_id \in DOMAIN runs
        /\ runs[execs[e].run_id].status \in Terminal
        /\ execs[e].run.started_at < runs[execs[e].run_id].finished_at

\* C5: after a crash between step 2 (flush) and the final commit, the store
\* holds the execution's record with status "running".
C5_CrashLeavesRunning ==
    ~alive =>
        \A e \in Execs :
            InFlight(e) =>
                /\ execs[e].run_id \in DOMAIN runs
                /\ runs[execs[e].run_id].status = "running"

\* C6: execute_agent_by_id with an unknown agent id, execute_run with an
\* unknown run id or with a run whose agent is missing: the call returns
\* {"error": "<Agent|Run> <id> not found"} without raising and the runs
\* table is left as it was.
C6_NotFound ==
    [][\A e \in Execs :
         (execs[e].pc = "idle" /\ execs'[e].pc # "idle") =>
            LET x == execs'[e]
                Reported(what, id) ==
                    /\ x.pc = "done"
                    /\ x.ret.tag = "return"
                    /\ x.ret.val = <<"error", what, id, "not found">>
                    /\ runs' = runs
                    /\ next_run_id' = next_run_id
            IN  /\ (x.insert /\ x.arg \notin DOMAIN agents)
                      => Reported("Agent ", x.arg)
                /\ (~x.insert /\ x.arg \notin DOMAIN runs)
                      => Reported("Run ", x.arg)
                /\ (~x.insert /\ x.arg \in DOMAIN runs
                              /\ runs[x.arg].agent_id \notin DOMAIN agents)
                      => Reported("Agent ", runs[x.arg].agent_id)]_vars

\* one call has reported a missing agent, another a run whose agent is missing
C6_Witness ==
    \E e, d \in Execs :
        /\ execs[e].pc = "done" /\ execs[e].insert
        /\ execs[e].arg \notin DOMAIN agents
        /\ execs[d].pc = "done" /\ ~execs[d].insert
        /\ execs[d].arg \in DOMAIN runs
        /\ runs[execs[d].arg].agent_id \notin DOMAIN agents

\* C10: no timer fires after shutdown(), and an execution in flight at
\* shutdown() still commits its record in a terminal status.
C10_InFlightCommitsTerminal ==
    [][/\ (app = "down" => \A i \in AgentIds : ~fire(i))
       /\ \A e \in Execs :
            (app = "down" /\ Commits(e)) =>
                runs'[execs[e].run_id].status \in Terminal]_vars

(* ======================= properties of the scheduler ================== *)
TimersOf(js, a) == {i \in DOMAIN js : js[i].agent_id = a}
Enabled == {a \in DOMAIN agents : agents[a].enabled}

\* C7: after startup the live timers are exactly the enabled agents: one
\* timer per enabled agent id, none for any other id.
C7_TimersMatchEnabled ==
    app = "up" =>
        \A a \in AgentIds :
            Cardinality(TimersOf(jobs, a)) = IF a \in Enabled THEN 1 ELSE 0

\* C8: whatever the sequence of add_or_update_job calls, an agent id never
\* has more than one timer, and while the scheduler runs an id the method
\* was called for has exactly one, with the interval of the latest call.
C8_OneTimerLatestInterval ==
    \A a \in AgentIds :
        /\ Cardinality(TimersOf(jobs, a)) <= 1
        /\ (running /\ requested[a] # 0) =>
              /\ Cardinality(TimersOf(jobs, a)) = 1
              /\ \A i \in TimersOf(jobs, a) : jobs[i].seconds = requested[a]

\* the agent loaded at startup with interval 2 was rescheduled to interval 1
\* and has one timer, of interval 1
C8_Witness ==
    /\ running
    /\ Len(agents) >= 1 /\ agents[1].enabled /\ agents[1].schedule_seconds = 2
    /\ requested[1] = 1
    /\ \E i \in DOMAIN jobs : jobs[i].agent_id = 1 /\ jobs[i].seconds = 1

\* C9: every firing of the timer of a stored agent starts an execution of
\* execute_agent_by_id for that agent.
C9_FiringStartsExecution ==
    [][\A i \in AgentIds :
         (fire(i) /\ jobs[i].agent_id \in DOMAIN agents) =>
            \E e \in Execs :
               /\ execs[e].pc = "idle"
               /\ execs'[e].pc # "idle"
               /\ execs'[e].insert
               /\ execs'[e].arg = jobs[i].agent_id]_vars

\* C11: a scheduled execution that fails (the behaviour raises, here for an
\* agent of a kind run_agent does not know, or the agent id is gone) is the
\* job's own failure: the firing runs the execution, the scheduler stays in
\* its running state and the timer set is the one before the firing.
SameTimers(js, ks) ==
    /\ Len(js) = Len(ks)
    /\ \A i \in DOMAIN js :
          /\ ks[i].id = js[i].id
          /\ ks[i].agent_id = js[i].agent_id
          /\ ks[i].seconds = js[i].seconds

Fails(agent_id) ==
    \/ agent_id \notin DOMAIN agents
    \/ agents[agent_id].kind \notin AGENT_KIND_TO_CLASS

C11_FrameOnly ==
    [][\A i \in AgentIds :
         fire(i) => running' = running /\ SameTimers(jobs, jobs')]_vars

\* C12: the scheduler takes an agent id from scheduled back to absent: once
\* the removal of id was asked for and until add_or_update_job is called for
\* id again, no timer exists for id (so none fires).
C12_RemovedHasNoTimer ==
    \A a \in AgentIds : removed[a] => TimersOf(jobs, a) = {}

\* C13: at most one execution ever writes a record: when an execution
\* commits, no execution has written the record before it (the stored row,
\* if there is one, was never started) and no other execution in flight
\* carries the same record.
C13_SingleWriter ==
    [][\A e \in Execs :
         Commits(e) =>
            LET r == execs[e].run_id IN
            /\ r \in DOMAIN runs => runs[r].started_at = None
            /\ \A d \in Execs \ {e} : InFlight(d) => execs[d].run_id # r]_vars

\* C15: run_agent for a kind that is no key of the kind-to-behaviour mapping
\* fails with the lookup-miss error for that kind (Python's KeyError) and
\* builds no behaviour; inside execute_agent_by_id or execute_run the record
\* is committed with status "error", the error in its logs and finished_at
\* set, and the caller gets the error.
C15_UnknownKind ==
    [][\A e \in Execs :
         (Commits(e) /\ agents[execs[e].run.agent_id].kind \notin AGENT_KIND_TO_CLASS) =>
            LET r    == execs[e].run_id
                kind == agents[execs[e].run.agent_id].kind
            IN  /\ run_agent(kind) = {Raised("KeyError", <<kind>>)}
                /\ execs'[e].ret = Raised("KeyError", <<kind>>)
                /\ r \in DOMAIN runs'
                /\ runs'[r].status = "error"
                /\ runs'[r].logs = <<"KeyError", ": ", kind>>
                /\ runs'[r].finished_at # None]_vars

\* a queued run of the agent of kind "report" was executed: the caller has
\* the KeyError, the record is "error" with finished_at set
C15_Witness ==
    \E e \in Execs :
        /\ execs[e].pc = "done" /\ ~execs[e].insert
        /\ execs[e].ret = Raised("KeyError", <<"report">>)
        /\ execs[e].run_id \in DOMAIN runs
        /\ runs[execs[e].run_id].status = "error"
        /\ runs[execs[e].run_id].finished_at # None

\* C18: add_or_update_job(id, n) changes only the timer of id: every other
\* agent id has a timer after the call exactly if it had one before, with
\* the same interval and the same next firing time.
TimerOf(js, a) ==
    {[seconds |-> js[i].seconds, next_run_time |-> js[i].next_run_time] :
        i \in TimersOf(js, a)}

C18_OtherTimersKept ==
    [][\A a \in AgentIds, n \in Intervals :
         AddOrUpdateJob(a, n) =>
            \A b \in AgentIds \ {a} : TimerOf(jobs', b) = TimerOf(jobs, b)]_vars

\* agent 1's timer was installed anew while agent 2 had a timer of another
\* interval; agent 2's timer is there
C18_Witness ==
    /\ Len(jobs) = 2
    /\ jobs[1].agent_id = 2 /\ jobs[2].agent_id = 1
    /\ jobs[1].seconds # jobs[2].seconds

\* C19: load_jobs() on a scheduler with no timers installs exactly one
\* timer, of interval schedule_seconds, for every stored agent with
\* enabled = true, and no timer for an agent with enabled = false (nor for
\* an id the table does not hold).
C19_LoadJobs ==
    [][(on_startup /\ jobs = <<>>) =>
          /\ \A a \in AgentIds :
                IF a \in DOMAIN agents /\ agents[a].enabled
                THEN /\ Cardinality(TimersOf(jobs', a)) = 1
                     /\ \A i \in TimersOf(jobs', a) :
                           jobs'[i].seconds = agents[a].schedule_seconds
                ELSE TimersOf(jobs', a) = {}
          /\ \A i \in DOMAIN jobs' : jobs'[i].agent_id \in AgentIds]_vars

\* startup found a disabled agent and an enabled one: one timer, the
\* enabled agent's
C19_Witness ==
    /\ app = "up"
    /\ Len(agents) = 2 /\ ~agents[1].enabled /\ agents[2].enabled
    /\ Len(jobs) = 1 /\ jobs[1].agent_id = 2
    /\ jobs[1].seconds = agents[2].schedule_seconds

\* C20: every call of execute_agent_by_id for an existing agent creates one
\* new record under a fresh id, also when calls for the same agent overlap:
\* at its commit the id is in the store for the first time, no other
\* execution carries it, and the record is committed in the terminal status
\* of the execution's own outcome ("success" for a return, "error" for a
\* raise).
C20_OwnRecord ==
    [][\A e \in Execs :
         (Commits(e) /\ execs[e].insert) =>
            LET r == execs[e].run_id IN
            /\ r \notin DOMAIN runs
            /\ r \in DOMAIN runs'
            /\ \A d \in Execs \ {e} : InFlight(d) => execs[d].run_id # r
            /\ runs'[r].agent_id = execs[e].arg
            /\ runs'[r].status =
                  (IF execs[e].ret.tag = "return" THEN "success" ELSE "error")]_vars

(* ======================== properties of the registry ================== *)
\* C14: connector(name) and action(name) for a name never registered in
\* that namespace fail with the lookup-miss error (Python's KeyError)
\* carrying the missing name and hand out no component; a name registered
\* only as an action is unknown to connector() and the other way round.
Miss(o, name) == o = [tag |-> "raise", exc |-> "KeyError", val |-> <<name>>]

C14_LookupMiss ==
    [][\A n \in Names :
         /\ (LookupConnector(n) /\ n \notin DOMAIN registry.connectors)
               => Miss(looked'.out, n)
         /\ (LookupAction(n) /\ n \notin DOMAIN registry.actions)
               => Miss(looked'.out, n)]_vars

\* "email" is registered as an action only and connector("email") has failed
C14_Witness ==
    /\ "email" \in DOMAIN registry.actions
    /\ "email" \notin DOMAIN registry.connectors
    /\ looked.ns = "connector" /\ looked.name = "email"
    /\ Miss(looked.out, "email")

(* =================== properties of the invoice behaviour ============== *)
\* the messages of Messages whose subject contains "invoice" in any case,
\* and the subject each is forwarded under
Invoices == {Msg_Invoice4, Msg_Upper}

Forwarded(m) ==
    IF m = Msg_Invoice4
    THEN <<"F", "W", "D", ":", " ", "I", "n", "v", "o", "i", "c", "e", " ", "#", "4">>
    ELSE <<"F", "W", "D", ":", " ", "R", "E", ":", "I", "N", "V", "O", "I", "C", "E">>

Matching(msgs) == SelectSeq(msgs, LAMBDA m : m \in Invoices)

\* C16: a run whose connector and action resolved and in which no action
\* invocation failed returns inputs = messages fetched, invoices = messages
\* whose subject contains "invoice" case-insensitively, sent = invoices,
\* after one invocation per matching message, in fetch order, with subject
\* "FWD: " + the original subject; zero messages give {0, 0, 0} and no
\* invocation.
C16_Counts ==
    inv.pc = "returned" =>
        LET want == Matching(inv.messages) IN
        /\ inv.out = Returned([inputs   |-> Len(inv.messages),
                               invoices |-> Len(want),
                               sent     |-> Len(want)])
        /\ Len(inv.calls) = Len(want)
        /\ \A k \in DOMAIN want :
              /\ inv.calls[k].subject = Forwarded(want[k])
              /\ inv.calls[k].body = (IF "body" \in want[k].keys THEN want[k].body ELSE <<>>)
              /\ inv.calls[k].to = inv.config.accounting_email
        /\ inv.messages = <<>> =>
              /\ inv.out = Returned([inputs |-> 0, invoices |-> 0, sent |-> 0])
              /\ inv.calls = <<>>

\* three messages, one of them "Invoice #4": the run returned {3, 1, 1}
C16_Witness ==
    /\ inv.pc = "returned"
    /\ Len(inv.messages) = 3
    /\ \E k \in 1..3 : inv.messages[k] = Msg_Invoice4
    /\ inv.out = Returned([inputs |-> 3, invoices |-> 1, sent |-> 1])

\* C17: when the action invocation for the k-th matching message fails,
\* exactly the first k matching messages have had the action invoked (k - 1
\* results, k invocations), the run ends there with the action's error and
\* no counts, and no later message is processed.
C17_FailFast ==
    [][/\ action_raises =>
            LET want == Matching(inv.messages)
                k    == Len(inv.results) + 1
            IN  /\ inv'.pc = "raised"
                /\ inv'.out = Raised("RuntimeError", <<"smtp down">>)
                /\ inv'.results = inv.results
                /\ inv'.calls = inv.calls
                /\ Len(inv.calls) = k /\ k <= Len(want)
                /\ \A j \in 1..k : inv.calls[j].subject = Forwarded(want[j])
       /\ inv.pc = "raised" => inv' = inv]_vars

\* the second of three invocations has failed
C17_Witness ==
    /\ inv.pc = "raised"
    /\ inv.out.exc = "RuntimeError"
    /\ Len(Matching(inv.messages)) = 3
    /\ Len(inv.calls) = 2 /\ Len(inv.results) = 1

====
